---------------------------- MODULE Spec2Model ----------------------------
(***************************************************************************)
(* A model of amlearn's short-range-order featurizers                      *)
(* (src/amlearn/featurize/featurizers/short_range_order.py).               *)
(*                                                                         *)
(* Each engine is modelled under a specification of its own:               *)
(*   Spec                 VolumeAreaInterstice.transform, row by row       *)
(*   SpecPackingOfSite    PackingOfSite methods called on one site         *)
(*   SpecPackingOfSiteHull  the hull methods of PackingOfSite             *)
(*   SpecAvgGroup         the third statistic group of transform           *)
(*   SpecCheckWithin      amlearn.utils.check.check_within                 *)
(*   SpecCharacterMotif   CharacterMotif.__init__ / fit / transform        *)
(*   SpecVoronoiStats     VoroIndex.transform and IFoldSymmetry.transform  *)
(*   SpecBOOP             BOOP.__init__ / transform                        *)
(*   SpecRemap            VolumeAreaInterstice.__init__ on a shared table  *)
(*                                                                         *)
(* Python exceptions are modelled as values: every modelled call yields a  *)
(* record whose field exc is "none" or the name of the exception raised.   *)
(* Real numbers are modelled as exact rationals [n, d] in lowest terms.    *)
(***************************************************************************)
EXTENDS Integers, Sequences, FiniteSets, TLC

VARIABLES
    \* ---- VolumeAreaInterstice instance and one transform call
    vai,            \* self.calc_packing_efficiency, self.calc_volume_area
    radii,          \* self.radii: atom type -> radius (a partial table)
    lmp_df,         \* self.lmp_df: atom id -> [type, coords]
    X,              \* the neighbor-topology table: a sequence of rows
    side,           \* self.volume_interstice_list, volume_list, area_...
    t_pc,           \* "idle" | "rows" | "returned" | "raised"
    t_k,            \* position of the row loop (line 334), 1-based
    feature_lists,  \* the local feature_lists of transform
    t_exc,          \* the exception transform raised, or "none"
    t_ret,          \* the table transform returned: <<index, rows, columns>>
    calls,          \* transform calls started on this instance
    prev,           \* outcome of the previous finished call
    site_dict,      \* the local site_dict: atom id -> site.neighbors (ids)
    \* ---- one PackingOfSite object and the result of the last method call
    pos,
    pos_ret,
    \* ---- one CharacterMotif instance and one transform call
    cm,
    cm_X,
    cm_ret,
    cm_fit,         \* the outcome of fit(X)
    \* ---- one VoroIndex / IFoldSymmetry configuration and its calls
    vidx,           \* edge_min, edge_max, include_beyond_edge_max
    vidx_X,         \* the input table: rows [n, edges]
    vidx_ret,       \* what VoroIndex.transform returned
    symm_ret,       \* what IFoldSymmetry.transform returned
    \* ---- BOOP construction and one transform call
    boop_args,      \* the arguments given to BOOP(...)
    boop,           \* the outcome of the construction
    boop_X,
    boop_ret,
    \* ---- a coordinate table shared by successive constructions
    rm_df,          \* the type column of the caller's lmp_df
    rm_list,        \* types_atomic_number_list
    rm_made,        \* outcomes of the constructions so far
    \* ---- the form of Site.nn_coords in the installed amlearn.data.site
    site_api,       \* "method" (site.nn_coords()) | "property"
    \* ---- one PackingOfSite object driven through its hull methods
    hp,             \* the object
    hp_ret,         \* the last method called on it and how it ended
    hp_n,           \* method calls made so far
    \* ---- one call of amlearn.utils.check.check_within
    cw_args,        \* [x, criterion, criterion_type]
    cw_ret,         \* how the call ended
    \* ---- the third statistic group computed for one atom's facet lists
    ag_args,        \* [interstice_list, size_list, total]
    ag_ret          \* the sum statistic of the group

vaiVars == <<vai, radii, lmp_df, X, side, t_pc, t_k, feature_lists, t_exc,
             t_ret, calls, prev, site_dict>>
posVars == <<pos, pos_ret>>
cmVars  == <<cm, cm_X, cm_ret, cm_fit>>
voroVars == <<vidx, vidx_X, vidx_ret, symm_ret>>
boopVars == <<boop_args, boop, boop_X, boop_ret>>
rmVars  == <<rm_df, rm_list, rm_made>>
hullVars == <<hp, hp_ret, hp_n>>
cwVars  == <<cw_args, cw_ret>>
agVars  == <<ag_args, ag_ret>>
vars    == <<vaiVars, posVars, cmVars, voroVars, boopVars, rmVars,
             hullVars, cwVars, agVars, site_api>>
othersOfVAI == <<posVars, cmVars, voroVars, boopVars, rmVars, hullVars,
                 cwVars, agVars, site_api>>

(***************************************************************************)
(* Bounds of the model.                                                    *)
(***************************************************************************)
MaxRows  == 2      \* rows of the neighbor-topology table X
MaxCalls == 2      \* successive transform calls on one instance
NSlots   == 5      \* neighbor-id slots per row (n_neighbor_limit)
MaxCN    == 26     \* largest coordination number tried on a site
MaxAtoms == 2      \* rows of the CharacterMotif input table
MaxMade  == 3      \* featurizers constructed over one coordinate table

(***************************************************************************)
(* Arithmetic helpers: exact rationals.                                    *)
(***************************************************************************)
RECURSIVE GCD(_, _)
GCD(a, b) == IF b = 0 THEN a ELSE GCD(b, a % b)

Rat(n, d) == LET g == GCD(n, d) IN [n |-> n \div g, d |-> d \div g]

RatAdd(x, y) == Rat(x.n * y.d + y.n * x.d, x.d * y.d)

RECURSIVE RatSum(_)
RatSum(s) == IF s = <<>> THEN Rat(0, 1) ELSE RatAdd(Head(s), RatSum(Tail(s)))

RECURSIVE SumSeq(_)
SumSeq(s) == IF s = <<>> THEN 0 ELSE Head(s) + SumSeq(Tail(s))

RECURSIVE SelectPos(_)
\* [x for x in s if x > 0]
SelectPos(s) ==
    IF s = <<>> THEN <<>>
    ELSE IF Head(s) > 0 THEN <<Head(s)>> \o SelectPos(Tail(s))
         ELSE SelectPos(Tail(s))

Range(s) == {s[i] : i \in DOMAIN s}

NoExc == "none"


(***************************************************************************)
(* Site (amlearn.data.site.Site): [type, coords, nb_types, nb_coords].     *)
(* nb_types / nb_coords are the types and coordinates of site.neighbors,   *)
(* in neighbor order.                                                      *)
(***************************************************************************)
Types == {1, 2}

\* Site.nn_coords is read in two ways: called, site.nn_coords() (lines 55,
\* 70, 92), and indexed as an array, np.array(site.nn_coords)[...] (lines
\* 115-121, 143-149).  A Site can serve one of the two.
SiteApis == {"method", "property"}

\* site.cn: the coordination number, the count of the site's neighbors
Site_cn(site) == Len(site.nb_types)

\* site.nn_type_dict(): neighbor type -> number of neighbors of that type
Site_nn_type_dict(site) ==
    [t \in Range(site.nb_types) |->
        Cardinality({i \in DOMAIN site.nb_types : site.nb_types[i] = t})]

(***************************************************************************)
(* PackingOfSite: [site, radii, attrs, nsa]; attrs is the set of           *)
(* attributes the methods have set on the object so far (hasattr).         *)
(***************************************************************************)
\* the object as __init__ leaves it (lines 46-48): no derived attribute yet.
\* nsa is the value of neighbors_solid_angle_ once it is set: per neighbor,
\* whether its accumulated solid angle is non-zero.
\* The remaining fields hold the values of the attributes named in attrs;
\* hull_builds counts the ConvexHull(...) constructions made for the object.
NewPackingOfSite(site, r) ==
    [site |-> site, radii |-> r, attrs |-> {}, nsa |-> <<>>,
     hull_builds |-> 0, triangular_angle_lists |-> <<>>,
     solid_angle_lists |-> <<>>, area_list |-> <<>>,
     area_interstice_list |-> <<>>, volume_list |-> <<>>,
     volume_interstice_list |-> <<>>]

PackingOfSite_init_params == {"site", "radii", "radius_type"}

\* PackingOfSite(site, **kwargs): TypeError on an unexpected keyword
PackingOfSite_init(site, kwargs, r) ==
    IF kwargs \subseteq PackingOfSite_init_params
    THEN [exc |-> NoExc, obj |-> NewPackingOfSite(site, r)]
    ELSE [exc |-> "TypeError", obj |-> NewPackingOfSite(site, r)]

\* ideal_ratio_ of glass_packing_efficiency, in units of 10^-6, keys 3..24
ideal_ratio_ ==
    LET t == <<154701, 224745, 361654, 414214, 518145, 616517, 709914,
               798907, 884003, 902113, 976006, 1047330, 1116320, 1183180,
               1248100, 1311230, 1372710, 1432670, 1491190, 1548400,
               1604360, 1659150>>
    IN  [c \in 3..24 |-> t[c - 2]]

IdealRat(c) == Rat(ideal_ratio_[c], 1000000)

RECURSIVE WeightedRadius(_, _, _)
\* the loop "for t, n in nn_type_dict().items(): r += radii[str(t)] * n"
WeightedRadius(d, r, S) ==
    IF S = {} THEN 0
    ELSE LET t == CHOOSE u \in S : TRUE
         IN  r[t] * d[t] + WeightedRadius(d, r, S \ {t})

NoGPE == [ratio |-> Rat(0, 1), ideal |-> Rat(0, 1)]

\* A variant that divides by the number of distinct neighbor types.
glass_packing_efficiency_bytypes(p) ==
    LET d  == Site_nn_type_dict(p.site)
        cn == Site_cn(p.site)
        nt == Cardinality(DOMAIN d)
    IN  IF \E t \in DOMAIN d : t \notin DOMAIN p.radii
        THEN [exc |-> "KeyError", val |-> NoGPE]
        ELSE IF nt = 0
        THEN [exc |-> "ZeroDivisionError", val |-> NoGPE]
        ELSE IF p.site.type \notin DOMAIN p.radii
        THEN [exc |-> "KeyError", val |-> NoGPE]
        ELSE IF cn \notin DOMAIN ideal_ratio_
        THEN [exc |-> "KeyError", val |-> NoGPE]
        ELSE LET r == Rat(WeightedRadius(d, p.radii, DOMAIN d), nt)
             IN  [exc |-> NoExc,
                  val |-> [ratio |-> Rat(p.radii[p.site.type] * r.d, r.n),
                           ideal |-> IdealRat(cn)]]

\* A variant that clamps the coordination number into the table's range.
glass_packing_efficiency_clamped(p) ==
    LET d  == Site_nn_type_dict(p.site)
        cn == Site_cn(p.site)
        ck == IF cn < 3 THEN 3 ELSE IF cn > 24 THEN 24 ELSE cn
    IN  IF \E t \in DOMAIN d : t \notin DOMAIN p.radii
        THEN [exc |-> "KeyError", val |-> NoGPE]
        ELSE IF cn = 0
        THEN [exc |-> "ZeroDivisionError", val |-> NoGPE]
        ELSE IF p.site.type \notin DOMAIN p.radii
        THEN [exc |-> "KeyError", val |-> NoGPE]
        ELSE LET r == Rat(WeightedRadius(d, p.radii, DOMAIN d), cn)
             IN  [exc |-> NoExc,
                  val |-> [ratio |-> Rat(p.radii[p.site.type] * r.d, r.n),
                           ideal |-> IdealRat(ck)]]

\* PackingOfSite.glass_packing_efficiency. The value returned is
\* val.ratio - val.ideal; it is kept as the two exact rationals.
glass_packing_efficiency(p) ==
    LET d  == Site_nn_type_dict(p.site)
        cn == Site_cn(p.site)
    IN  IF \E t \in DOMAIN d : t \notin DOMAIN p.radii
        THEN [exc |-> "KeyError", val |-> NoGPE]          \* radii[str(t)]
        ELSE IF cn = 0
        THEN [exc |-> "ZeroDivisionError", val |-> NoGPE] \* r / site.cn
        ELSE IF p.site.type \notin DOMAIN p.radii
        THEN [exc |-> "KeyError", val |-> NoGPE]     \* radii[str(site.type)]
        ELSE IF cn \notin DOMAIN ideal_ratio_
        THEN [exc |-> "KeyError", val |-> NoGPE]     \* ideal_ratio_[site.cn]
        ELSE LET r == Rat(WeightedRadius(d, p.radii, DOMAIN d), cn)
             IN  [exc |-> NoExc,
                  val |-> [ratio |-> Rat(p.radii[p.site.type] * r.d, r.n),
                           ideal |-> IdealRat(cn)]]

\* the returned float is exactly 0
GPEIsZero(v) == v.ratio = v.ideal


(***************************************************************************)
(* Geometry of the neighbor shell. Coordinates are integer triples.        *)
(***************************************************************************)
Sub(a, b) == <<a[1] - b[1], a[2] - b[2], a[3] - b[3]>>

Det3(u, v, w) ==
      u[1] * (v[2] * w[3] - v[3] * w[2])
    - u[2] * (v[1] * w[3] - v[3] * w[1])
    + u[3] * (v[1] * w[2] - v[2] * w[1])

\* all points lie in one plane (or on one line, or coincide)
Coplanar(pts) ==
    \A a, b, c, d \in Range(pts) : Det3(Sub(b, a), Sub(c, a), Sub(d, a)) = 0

\* scipy's ConvexHull(points) raises QhullError on fewer than 4 points and
\* on a flat point set (the initial simplex is flat)
ConvexHull_raises(pts) == Len(pts) < 4 \/ Coplanar(pts)

\* A variant of convex_hull that constructs the hull on every call
convex_hull_rebuilding(p) ==
    IF site_api # "method"
    THEN [exc |-> "TypeError", obj |-> p]
    ELSE IF ConvexHull_raises(p.site.nb_coords)
         THEN [exc |-> "QhullError", obj |-> p]
         ELSE [exc |-> NoExc,
               obj |-> [p EXCEPT !.attrs = @ \cup {"convex_hull_"},
                                 !.hull_builds = @ + 1]]

\* PackingOfSite.convex_hull: memoized on convex_hull_
convex_hull(p) ==
    IF "convex_hull_" \in p.attrs THEN [exc |-> NoExc, obj |-> p]
    ELSE IF site_api # "method"
         THEN [exc |-> "TypeError", obj |-> p]      \* site.nn_coords()
    ELSE IF ConvexHull_raises(p.site.nb_coords)
         THEN [exc |-> "QhullError", obj |-> p]
         ELSE [exc |-> NoExc,
               obj |-> [p EXCEPT !.attrs = @ \cup {"convex_hull_"},
                                 !.hull_builds = @ + 1]]

\* PackingOfSite.cluster_packed_volume: the exception it ends with
cluster_packed_volume(p) ==
    IF p.site.type \notin DOMAIN p.radii
    THEN [exc |-> "KeyError"]                 \* radii[str(site.type)]
    ELSE IF "neighbors_solid_angle_" \notin p.attrs
    THEN [exc |-> "AttributeError"]           \* self.neighbors_solid_angle_
    ELSE IF \E i \in DOMAIN p.nsa :
               p.nsa[i] /\ p.site.nb_types[i] \notin DOMAIN p.radii
    THEN [exc |-> "KeyError"]                 \* radii[str(neighbor.type)]
    ELSE [exc |-> NoExc]

\* PackingOfSite.atomic_packing_efficiency
atomic_packing_efficiency(p) ==
    IF cluster_packed_volume(p).exc # NoExc THEN cluster_packed_volume(p)
    ELSE [exc |-> convex_hull(p).exc]

\* the names a PackingOfSite object answers to before any method has run
PackingOfSite_members ==
    {"site", "radii", "radius_type", "convex_hull", "_load_radii",
     "calculate_hull_facet_angles", "calculate_hull_tetra_angles",
     "analyze_hull_facet_interstice", "analyze_hull_tetra_interstice",
     "combine_neighbor_solid_angles", "cluster_packed_volume",
     "atomic_packing_efficiency", "glass_packing_efficiency"}

\* getattr(p, name)
GetAttr(p, name) ==
    IF name \in PackingOfSite_members \cup p.attrs
    THEN [exc |-> NoExc] ELSE [exc |-> "AttributeError"]


(***************************************************************************)
(* VolumeAreaInterstice.                                                   *)
(* A feature name is a pair <<prefix, statistic>>; the radius-type prefix  *)
(* and the dependency suffix are the same in every name and are left out.  *)
(* A feature value is the pair naming the quantity it holds, or Zero.      *)
(***************************************************************************)
Zero == <<"0", "">>

\* stats of get_feature_names (line 453)
stats == <<"sum", "mean", "std", "min", "max">>

\* what calc_stats returns for one list, in order
calc_stats == <<"sum", "mean", "std", "min", "max">>

WantVolume(cfg) == cfg.calc_volume_area \in {"volume", "all"}
WantArea(cfg)   == cfg.calc_volume_area \in {"area", "all"}

\* ['{} {} {}'.format(prefix, stat, ...) for prefix in P for stat in S]
Cross(P, S) ==
    [i \in 1..(Len(P) * Len(S)) |->
        <<P[((i - 1) \div Len(S)) + 1], S[((i - 1) % Len(S)) + 1]>>]

VolumePrefixs ==
    <<"fractional_volume_interstice_tetrahedra", "volume_interstice",
      "fractional_volume_interstice_tetrahedra_avg",
      "fractional_volume_interstice_center_v">>

AreaPrefixs ==
    <<"fractional_area_interstice_triangle", "area_interstice",
      "fractional_area_interstice_triangle_avg",
      "fractional_area_interstice_center_slice_a">>

\* VolumeAreaInterstice.get_feature_names
get_feature_names(cfg) ==
       (IF cfg.calc_packing_efficiency
        THEN << <<"atomic_packing_efficiency", "">>,
                <<"glass_packing_efficiency", "">> >>
        ELSE <<>>)
    \o Cross((IF WantVolume(cfg) THEN VolumePrefixs ELSE <<>>)
             \o (IF WantArea(cfg) THEN AreaPrefixs ELSE <<>>), stats)

\* the quantities transform puts into feature_list, in the order of its
\* extend calls (lines 347-402)
feature_list_quantities(cfg) ==
       (IF cfg.calc_packing_efficiency
        THEN << <<"atomic_packing_efficiency", "">>,
                <<"glass_packing_efficiency", "">> >>
        ELSE <<>>)
    \o (IF WantVolume(cfg)
        THEN    Cross(<<"fractional_volume_interstice_tetrahedra">>, calc_stats)
             \o Cross(<<"volume_interstice">>, calc_stats)
             \o Cross(<<"fractional_volume_interstice_tetrahedra_avg">>,
                      calc_stats)
             \o Cross(<<"fractional_volume_interstice_center_v">>, calc_stats)
        ELSE <<>>)
    \o (IF WantArea(cfg)
        THEN    Cross(<<"fractional_area_interstice_triangle">>, calc_stats)
             \o Cross(<<"area_interstice">>, calc_stats)
             \o Cross(<<"fractional_area_interstice_triangle_avg">>,
                      calc_stats)
             \o Cross(<<"fractional_area_interstice_center_slice_a">>,
                      calc_stats)
        ELSE <<>>)

\* [0] * len(self.get_feature_names())
ZeroRow(cfg) == [i \in 1..Len(get_feature_names(cfg)) |-> Zero]

RECURSIVE FirstExc(_)
\* the first exception of a sequence of steps run in order
FirstExc(es) ==
    IF es = <<>> THEN NoExc
    ELSE IF Head(es) # NoExc THEN Head(es) ELSE FirstExc(Tail(es))

\* the keyword arguments transform passes to PackingOfSite (lines 339-342)
transform_pos_kwargs ==
    {"radii", "radius_type", "calc_volume_area", "calc_packing_efficiency"}

\* the valid neighbor ids of a row: [int(x) for x in site_neighbors if x > 0]
NeighborIds(row) == SelectPos(row.nbr)

\* the Site of a row with its neighbors attached (lines 323-338)
SiteOf(df, row) ==
    LET ids == NeighborIds(row)
    IN  [type      |-> df[row.idx].type,
         coords    |-> df[row.idx].coords,
         nb_types  |-> [i \in 1..Len(ids) |-> df[ids[i]].type],
         nb_coords |-> [i \in 1..Len(ids) |-> df[ids[i]].coords]]

\* the else branch of the row loop (lines 346-407) on the fresh pos_
transform_compute(p, cfg) ==
    LET radius == IF p.site.type \in DOMAIN p.radii
                  THEN NoExc ELSE "KeyError"
        eP == IF cfg.calc_packing_efficiency
              THEN FirstExc(<<atomic_packing_efficiency(p).exc,
                              glass_packing_efficiency(p).exc>>)
              ELSE NoExc
        eV == IF WantVolume(cfg)
              THEN FirstExc(<<GetAttr(p, "calc_area_volume_list").exc,
                              GetAttr(p, "volume_interstice_list").exc,
                              GetAttr(p, "volume_list").exc,
                              convex_hull(p).exc, radius>>)
              ELSE NoExc
        eA == IF WantArea(cfg)
              THEN FirstExc(<<GetAttr(p, "area_interstice_list").exc,
                              GetAttr(p, "area_list").exc,
                              convex_hull(p).exc, radius>>)
              ELSE NoExc
    IN  IF eP # NoExc
        THEN [exc |-> eP, row |-> <<>>, vol |-> FALSE, area |-> FALSE]
        ELSE IF eV # NoExc
        THEN [exc |-> eV, row |-> <<>>, vol |-> FALSE, area |-> FALSE]
        ELSE IF eA # NoExc
        THEN [exc |-> eA, row |-> <<>>, vol |-> WantVolume(cfg),
              area |-> FALSE]
        ELSE [exc |-> NoExc, row |-> feature_list_quantities(cfg),
              vol |-> WantVolume(cfg), area |-> WantArea(cfg)]

\* site_dict[idx] and site_dict[int(x)] find their Sites (lines 335-338)
SiteExists(df, row) ==
    /\ row.idx \in DOMAIN df
    /\ \A id \in Range(NeighborIds(row)) : id \in DOMAIN df

\* the ids site.neighbors is built from (lines 336-338): every slot of the
\* row with a positive value
site_neighbors(row) == NeighborIds(row)

\* A variant that fails after the volume lists of the atom were appended.
transform_row_partial(row, df, r, cfg) ==
    [exc |-> "TypeError", row |-> <<>>, vol |-> TRUE, area |-> FALSE]

\* one pass of the row loop of transform (lines 334-407)
transform_row(row, df, r, cfg) ==
    IF ~SiteExists(df, row)
    THEN [exc |-> "KeyError", row |-> <<>>, vol |-> FALSE, area |-> FALSE]
    ELSE LET site == SiteOf(df, row)
             made == PackingOfSite_init(site, transform_pos_kwargs, r)
         IN  IF made.exc # NoExc
             THEN [exc |-> made.exc, row |-> <<>>, vol |-> FALSE,
                   area |-> FALSE]
             ELSE IF Len(site.nb_types) < 4
             THEN [exc |-> NoExc, row |-> ZeroRow(cfg), vol |-> FALSE,
                   area |-> FALSE]
             ELSE transform_compute(made.obj, cfg)


(***************************************************************************)
(* Inputs of the VolumeAreaInterstice runs.                                *)
(***************************************************************************)
\* the coordinate table: six atoms; atoms 1, 2, 3, 5, 6 lie in the plane z = 0
LmpTable ==
    [a \in 1..6 |->
        [type   |-> IF a % 2 = 1 THEN 1 ELSE 2,
         coords |-> CASE a = 1 -> <<0, 0, 0>>
                      [] a = 2 -> <<1, 0, 0>>
                      [] a = 3 -> <<0, 1, 0>>
                      [] a = 4 -> <<0, 0, 1>>
                      [] a = 5 -> <<1, 1, 0>>
                      [] a = 6 -> <<-1, 0, 0>>]]

\* radius tables: complete, and one without an entry for type 2
RadiiTables == {[t \in {1, 2} |-> IF t = 1 THEN 2500 ELSE 3871],
                [t \in {1} |-> 2500]}

\* a row of X: the atom's index, its n_neighbors count and its NSlots
\* neighbor-id slots, the ids given first and the rest of the slots 0 (unused)
Row(idx, ids) ==
    [idx |-> idx,
     n   |-> Len(ids),
     nbr |-> [i \in 1..NSlots |-> IF i <= Len(ids) THEN ids[i] ELSE 0]]

\* a row whose slots at and beyond its count n still hold ids
StaleRow(idx, n, ids) == [Row(idx, ids) EXCEPT !.n = n]

RowChoices ==
    {Row(1, <<>>), Row(2, <<1>>), Row(3, <<1, 2>>), Row(1, <<2, 3, 4>>),
     Row(2, <<1, 0, 3, -1, 4>>),
     Row(1, <<2, 3, 4, 5>>), Row(1, <<2, 3, 4, 5, 6>>),
     Row(1, <<2, 3, 5, 6>>), Row(4, <<1, 2, 3, 5>>),
     StaleRow(1, 1, <<2, 3>>), StaleRow(1, 3, <<2, 3, 4, 5>>)}

Tables == UNION {[1..n -> RowChoices] : n \in 0..MaxRows}

Configs == [calc_packing_efficiency : BOOLEAN,
            calc_volume_area : {"volume", "area", "all"}]

NValid(row) == Len(NeighborIds(row))

\* the row's neighbor coordinates make the hull ill-defined
Degenerate(row) ==
    LET ids == NeighborIds(row)
    IN  Coplanar([i \in 1..Len(ids) |-> LmpTable[ids[i]].coords])

NoTable == [index |-> <<>>, rows |-> <<>>, columns |-> <<>>]
NoCall  == [pc |-> "none", exc |-> NoExc, ret |-> NoTable]
NoLists == [volume_interstice_list |-> <<>>, volume_list |-> <<>>,
            area_interstice_list |-> <<>>, area_list |-> <<>>]

\* values of the variables an engine does not use
IdleSite == [type |-> 1, coords |-> <<0, 0, 0>>, nb_types |-> <<>>,
             nb_coords |-> <<>>]
VaiIdle ==
    /\ vai = [calc_packing_efficiency |-> TRUE, calc_volume_area |-> "all"]
    /\ radii = <<>> /\ lmp_df = <<>> /\ X = <<>> /\ side = NoLists
    /\ t_pc = "idle" /\ t_k = 1 /\ feature_lists = <<>> /\ t_exc = NoExc
    /\ t_ret = NoTable /\ calls = 0 /\ prev = NoCall /\ site_dict = <<>>
PosIdle ==
    /\ pos = NewPackingOfSite(IdleSite, <<>>)
    /\ pos_ret = [method |-> "none", exc |-> NoExc, val |-> NoGPE]
CmIdle ==
    /\ cm = <<>> /\ cm_X = <<>> /\ cm_ret = <<>> /\ cm_fit = <<>>
VoroIdle ==
    /\ vidx = <<>> /\ vidx_X = <<>> /\ vidx_ret = <<>> /\ symm_ret = <<>>
BoopIdle ==
    /\ boop_args = <<>> /\ boop = <<>> /\ boop_X = <<>> /\ boop_ret = <<>>
RemapIdle ==
    /\ rm_df = <<>> /\ rm_list = <<>> /\ rm_made = <<>>
HullIdle ==
    /\ hp = <<>> /\ hp_ret = <<>> /\ hp_n = 0
CwIdle ==
    /\ cw_args = <<>> /\ cw_ret = <<>>
AgIdle ==
    /\ ag_args = <<>> /\ ag_ret = <<>>
\* the specifications that never reach site.nn_coords fix one form of it
ApiIdle == site_api = "method"

(***************************************************************************)
(* VolumeAreaInterstice.transform, one action per step.                    *)
(***************************************************************************)
\* __init__ (lines 274-300) has run: the side lists are empty
InitVAI ==
    /\ vai \in Configs
    /\ radii \in RadiiTables
    /\ lmp_df = LmpTable
    /\ X \in Tables
    /\ side = NoLists
    /\ t_pc = "idle" /\ t_k = 1 /\ feature_lists = <<>> /\ t_exc = NoExc
    /\ t_ret = NoTable /\ calls = 0 /\ prev = NoCall
    /\ site_dict = <<>>

\* A variant of the start of transform that rewrites the type column of
\* the coordinate table.
TransformStart_retyping ==
    /\ t_pc \in {"idle", "returned", "raised"}
    /\ calls < MaxCalls
    /\ calls' = calls + 1
    /\ prev' = IF t_pc = "idle" THEN NoCall
               ELSE [pc |-> t_pc, exc |-> t_exc, ret |-> t_ret]
    /\ t_pc' = "rows" /\ t_k' = 1 /\ feature_lists' = <<>>
    /\ t_exc' = NoExc /\ t_ret' = NoTable
    /\ site_dict' = [a \in DOMAIN lmp_df |-> <<>>]
    /\ lmp_df' = [a \in DOMAIN lmp_df |->
                     [lmp_df[a] EXCEPT !.type = 3 - @]]
    /\ UNCHANGED <<vai, radii, X, side>>

\* transform is called (lines 306-333): feature_lists = list(), the Sites
\* are created, none with neighbors yet; the outcome of the call before it
\* is remembered
TransformStart ==
    /\ t_pc \in {"idle", "returned", "raised"}
    /\ calls < MaxCalls
    /\ calls' = calls + 1
    /\ prev' = IF t_pc = "idle" THEN NoCall
               ELSE [pc |-> t_pc, exc |-> t_exc, ret |-> t_ret]
    /\ t_pc' = "rows" /\ t_k' = 1 /\ feature_lists' = <<>>
    /\ t_exc' = NoExc /\ t_ret' = NoTable
    /\ site_dict' = [a \in DOMAIN lmp_df |-> <<>>]
    /\ UNCHANGED <<vai, radii, lmp_df, X, side>>

\* one pass of "for idx, row in X.iterrows()" (lines 334-410)
TransformRow ==
    /\ t_pc = "rows" /\ t_k <= Len(X)
    /\ LET o == transform_row(X[t_k], lmp_df, radii, vai)
       IN  IF o.exc # NoExc
           THEN /\ t_pc' = "raised" /\ t_exc' = o.exc
                /\ UNCHANGED <<t_k, feature_lists>>
                /\ side' = [side EXCEPT
                     !.volume_interstice_list =
                         IF o.vol THEN Append(@, X[t_k].idx) ELSE @,
                     !.volume_list =
                         IF o.vol THEN Append(@, X[t_k].idx) ELSE @]
           ELSE /\ feature_lists' = Append(feature_lists, o.row)
                /\ t_k' = t_k + 1
                /\ UNCHANGED <<t_pc, t_exc>>
                /\ side' = [side EXCEPT
                     !.volume_interstice_list =
                         IF o.vol THEN Append(@, X[t_k].idx) ELSE @,
                     !.volume_list =
                         IF o.vol THEN Append(@, X[t_k].idx) ELSE @,
                     !.area_interstice_list =
                         IF o.area THEN Append(@, X[t_k].idx) ELSE @,
                     !.area_list =
                         IF o.area THEN Append(@, X[t_k].idx) ELSE @]
    /\ site_dict' = IF SiteExists(lmp_df, X[t_k])
                    THEN [site_dict EXCEPT ![X[t_k].idx] = site_neighbors(X[t_k])]
                    ELSE site_dict
    /\ UNCHANGED <<vai, radii, lmp_df, X, t_ret, calls, prev>>

\* the loop is over: pd.DataFrame(feature_lists, index=X.index,
\* columns=self.get_feature_names()) and return (lines 412-438)
TransformFinish ==
    /\ t_pc = "rows" /\ t_k > Len(X)
    /\ IF \E i \in DOMAIN feature_lists :
              Len(feature_lists[i]) # Len(get_feature_names(vai))
       THEN /\ t_pc' = "raised" /\ t_exc' = "ValueError"
            /\ UNCHANGED t_ret
       ELSE /\ t_pc' = "returned"
            /\ t_ret' = [index   |-> [i \in DOMAIN X |-> X[i].idx],
                         rows    |-> feature_lists,
                         columns |-> get_feature_names(vai)]
            /\ UNCHANGED t_exc
    /\ UNCHANGED <<vai, radii, lmp_df, X, side, t_k, feature_lists, calls,
                   prev, site_dict>>

NextVAI ==
    \/ TransformStart /\ UNCHANGED othersOfVAI
    \/ TransformRow /\ UNCHANGED othersOfVAI
    \/ TransformFinish /\ UNCHANGED othersOfVAI

Init ==
    /\ InitVAI /\ PosIdle /\ CmIdle /\ VoroIdle /\ BoopIdle /\ RemapIdle
    /\ HullIdle /\ CwIdle /\ AgIdle /\ site_api \in SiteApis

Next == NextVAI

Spec == Init /\ [][Next]_vars


(***************************************************************************)
(* PackingOfSite methods called on one site.                               *)
(***************************************************************************)
\* n1 neighbors of type 1 followed by n2 neighbors of type 2
NeighborTypes(n1, n2) == [i \in 1..(n1 + n2) |-> IF i <= n1 THEN 1 ELSE 2]

PosRadiiTables ==
    RadiiTables \cup {[t \in {1, 2} |-> IF t = 1 THEN 3871 ELSE 2500]}

InitPOS ==
    /\ \E c \in Types, n1 \in 0..MaxCN, r \in PosRadiiTables :
         \E n2 \in 0..(MaxCN - n1) :
            pos = NewPackingOfSite(
                      [type |-> c, coords |-> <<0, 0, 0>>,
                       nb_types |-> NeighborTypes(n1, n2),
                       nb_coords |-> <<>>], r)
    /\ pos_ret = [method |-> "none", exc |-> NoExc, val |-> NoGPE]

\* pos.glass_packing_efficiency() is called
PosGlassPackingEfficiency ==
    /\ pos_ret' = [method |-> "glass_packing_efficiency",
                   exc    |-> glass_packing_efficiency(pos).exc,
                   val    |-> glass_packing_efficiency(pos).val]
    /\ UNCHANGED pos

NextPOS ==
    PosGlassPackingEfficiency
    /\ UNCHANGED <<vaiVars, cmVars, voroVars, boopVars, rmVars,
                     hullVars, cwVars, agVars, site_api>>

InitPackingOfSite ==
    InitPOS /\ VaiIdle /\ CmIdle /\ VoroIdle /\ BoopIdle /\ RemapIdle
    /\ HullIdle /\ CwIdle /\ AgIdle /\ ApiIdle

SpecPackingOfSite == InitPackingOfSite /\ [][NextPOS]_vars

(***************************************************************************)
(* The hull methods of PackingOfSite (lines 53-209), called on one object. *)
(* A site carries, besides its neighbor shell, the facets scipy finds for  *)
(* it: hull[k] = [simplex, tri, sa, csa, area, vol], where simplex is the  *)
(* triple of neighbor positions (1-based), tri and sa are the triangular   *)
(* and solid angles at the three vertices, csa is the solid angle the      *)
(* facet subtends at the center, area and vol are triangle_area and        *)
(* tetra_volume of the facet.  Angles, areas and volumes are integers in   *)
(* fixed units.                                                            *)
(***************************************************************************)
MaxHullCalls == 3     \* method calls made on one PackingOfSite object

\* ConvexHull(...).simplices, one entry per facet
ConvexHull_simplices(site) == site.hull

\* radii[str(site.neighbors[idx].type)] fails for a vertex of the facet
FacetRadiusMissing(p, f, angles) ==
    \E j \in 1..3 : /\ angles[j] # 0
                    /\ p.site.nb_types[f.simplex[j]] \notin DOMAIN p.radii

\* sum over the facet's vertices of angle * r^power (lines 124-127, 152-157)
VertexSum(p, f, angles, power) ==
    SumSeq([j \in 1..3 |->
        IF angles[j] = 0 THEN 0
        ELSE angles[j] * (p.radii[p.site.nb_types[f.simplex[j]]] ^ power)])

\* PackingOfSite.calculate_hull_facet_angles
calculate_hull_facet_angles(p) ==
    LET h == convex_hull(p)
        facets == ConvexHull_simplices(p.site)
    IN  IF h.exc # NoExc THEN h
        ELSE IF site_api # "method"
             THEN [exc |-> "TypeError", obj |-> h.obj]   \* site.nn_coords()
        ELSE [exc |-> NoExc,
              obj |-> [h.obj EXCEPT
                  !.attrs = @ \cup {"triangular_angle_lists_"},
                  !.triangular_angle_lists =
                      [k \in DOMAIN facets |-> facets[k].tri]]]

\* PackingOfSite.calculate_hull_tetra_angles
calculate_hull_tetra_angles(p) ==
    LET h == convex_hull(p)
        facets == ConvexHull_simplices(p.site)
    IN  IF h.exc # NoExc THEN h
        ELSE IF site_api # "method"
             THEN [exc |-> "TypeError", obj |-> h.obj]   \* site.nn_coords()
        ELSE [exc |-> NoExc,
              obj |-> [h.obj EXCEPT
                  !.attrs = @ \cup {"solid_angle_lists_"},
                  !.solid_angle_lists =
                      [k \in DOMAIN facets |-> facets[k].sa]]]

\* 1 - packed/total, kept unevaluated: [packed, total] with packed a
\* rational.  Where total is 0 the division has no finite value: Python
\* floats raise ZeroDivisionError, numpy floats give inf or nan.
Interstice(packed, total) == [packed |-> packed, total |-> total]

\* np.array(site.nn_coords)[convex_surface_indices] (lines 121, 149): an
\* array built from a bound method is 0-dimensional and cannot be indexed
nn_coords_index_raises == site_api = "method"

\* PackingOfSite.analyze_hull_facet_interstice
analyze_hull_facet_interstice(p) ==
    LET h == convex_hull(p)
        facets == ConvexHull_simplices(p.site)
        angles == h.obj.triangular_angle_lists
    IN  IF h.exc # NoExc THEN h
        ELSE IF "triangular_angle_lists_" \notin h.obj.attrs
             THEN [exc |-> "AttributeError", obj |-> h.obj]
        ELSE IF facets # <<>> /\ nn_coords_index_raises
             THEN [exc |-> "IndexError", obj |-> h.obj]
        ELSE IF \E k \in DOMAIN facets :
                    FacetRadiusMissing(h.obj, facets[k], [j \in 1..3 |-> 1])
             THEN [exc |-> "KeyError", obj |-> h.obj]
        ELSE [exc |-> NoExc,
              obj |-> [h.obj EXCEPT
                  !.attrs = @ \cup {"area_list_", "area_interstice_list_"},
                  !.area_list = [k \in DOMAIN facets |-> facets[k].area],
                  !.area_interstice_list = [k \in DOMAIN facets |->
                      Interstice(
                          Rat(SumSeq([j \in 1..3 |-> angles[k][j] *
                                (h.obj.radii[h.obj.site.nb_types[
                                     facets[k].simplex[j]]] ^ 2)]), 2),
                          facets[k].area)]]]

\* the packed volume of one facet's tetrahedron (lines 151-163)
tetra_packed_volume(p, f, angles) ==
    Rat(VertexSum(p, f, angles, 3) + f.csa * (p.radii[p.site.type] ^ 3), 3)

\* PackingOfSite.analyze_hull_tetra_interstice
analyze_hull_tetra_interstice(p) ==
    LET h == convex_hull(p)
        facets == ConvexHull_simplices(p.site)
        angles == h.obj.solid_angle_lists
    IN  IF h.exc # NoExc THEN h
        ELSE IF "solid_angle_lists_" \notin h.obj.attrs
             THEN [exc |-> "AttributeError", obj |-> h.obj]
        ELSE IF facets # <<>> /\ nn_coords_index_raises
             THEN [exc |-> "IndexError", obj |-> h.obj]
        ELSE IF \/ \E k \in DOMAIN facets :
                       FacetRadiusMissing(h.obj, facets[k], angles[k])
                \/ facets # <<>> /\ p.site.type \notin DOMAIN p.radii
             THEN [exc |-> "KeyError", obj |-> h.obj]
        ELSE [exc |-> NoExc,
              obj |-> [h.obj EXCEPT
                  !.attrs = @ \cup {"volume_list_", "volume_interstice_list_"},
                  !.volume_list = [k \in DOMAIN facets |-> facets[k].vol],
                  !.volume_interstice_list = [k \in DOMAIN facets |->
                      Interstice(tetra_packed_volume(h.obj, facets[k],
                                                     angles[k]),
                                 facets[k].vol)]]]

\* PackingOfSite.combine_neighbor_solid_angles: memoized
combine_neighbor_solid_angles(p) ==
    LET h == convex_hull(p)
        facets == ConvexHull_simplices(p.site)
        angles == h.obj.solid_angle_lists
    IN  IF "neighbors_solid_angle_" \in p.attrs THEN [exc |-> NoExc, obj |-> p]
        ELSE IF h.exc # NoExc THEN h
        ELSE IF "solid_angle_lists_" \notin h.obj.attrs
             THEN [exc |-> "AttributeError", obj |-> h.obj]
        ELSE [exc |-> NoExc,
              obj |-> [h.obj EXCEPT
                  !.attrs = @ \cup {"neighbors_solid_angle_"},
                  !.nsa = [i \in DOMAIN p.site.nb_types |->
                      SumSeq([k \in DOMAIN facets |->
                          SumSeq([j \in 1..3 |->
                              IF facets[k].simplex[j] = i
                              THEN angles[k][j] ELSE 0])]) # 0]]]

\* the object a call of atomic_packing_efficiency leaves behind
atomic_packing_efficiency_obj(p) ==
    IF cluster_packed_volume(p).exc # NoExc THEN p ELSE convex_hull(p).obj

HullMethods ==
    {"convex_hull", "calculate_hull_facet_angles",
     "calculate_hull_tetra_angles", "analyze_hull_facet_interstice",
     "analyze_hull_tetra_interstice", "combine_neighbor_solid_angles",
     "atomic_packing_efficiency"}

\* p.<m>(): how the call ends and the object it leaves
CallHullMethod(m, p) ==
    CASE m = "convex_hull" -> convex_hull(p)
      [] m = "calculate_hull_facet_angles" -> calculate_hull_facet_angles(p)
      [] m = "calculate_hull_tetra_angles" -> calculate_hull_tetra_angles(p)
      [] m = "analyze_hull_facet_interstice" ->
             analyze_hull_facet_interstice(p)
      [] m = "analyze_hull_tetra_interstice" ->
             analyze_hull_tetra_interstice(p)
      [] m = "combine_neighbor_solid_angles" ->
             combine_neighbor_solid_angles(p)
      [] OTHER -> [exc |-> atomic_packing_efficiency(p).exc,
                   obj |-> atomic_packing_efficiency_obj(p)]

\* ---- the sites tried
TetraSimplices == << <<1, 2, 3>>, <<1, 2, 4>>, <<1, 3, 4>>, <<2, 3, 4>> >>

Facet(s, tri, sa, csa, area, vol) ==
    [simplex |-> s, tri |-> tri, sa |-> sa, csa |-> csa,
     area |-> area, vol |-> vol]

\* the center inside a tetrahedron of four neighbors
RegularHull ==
    [k \in 1..4 |-> Facet(TetraSimplices[k], <<60, 60, 60>>, <<1, 1, 1>>,
                          3, 6, 12)]

\* the center in the plane of the first facet: that tetrahedron is flat,
\* the solid angles at its vertices are 0
FlatTetraHull ==
    [k \in 1..4 |->
        IF k = 1 THEN Facet(TetraSimplices[k], <<60, 60, 60>>, <<0, 0, 0>>,
                            6, 6, 0)
        ELSE Facet(TetraSimplices[k], <<60, 60, 60>>, <<1, 1, 1>>, 2, 6, 12)]

\* a facet whose three vertices lie on one line: its area is 0
SliverHull ==
    [k \in 1..4 |->
        IF k = 2 THEN Facet(TetraSimplices[k], <<0, 0, 180>>, <<0, 0, 1>>,
                            1, 0, 0)
        ELSE Facet(TetraSimplices[k], <<60, 60, 60>>, <<1, 1, 1>>, 3, 6, 12)]

HullSite(c, nbt, pts, hull) ==
    [type |-> c, coords |-> <<0, 0, 0>>, nb_types |-> nbt,
     nb_coords |-> pts, hull |-> hull]

TetraPoints == << <<1, 1, 1>>, <<1, -1, -1>>, <<-1, 1, -1>>, <<-1, -1, 1>> >>
FlatPoints  == << <<1, 0, 0>>, <<0, 1, 0>>, <<-1, -1, 0>>, <<2, 2, 0>> >>

HullSites ==
    {HullSite(c, nbt, TetraPoints, h) :
        c \in Types, nbt \in {<<1, 1, 2, 2>>, <<1, 1, 1, 1>>},
        h \in {RegularHull, FlatTetraHull, SliverHull}}
    \cup {HullSite(1, <<1, 1, 2, 2>>, FlatPoints, <<>>)}

HullRadiiTables ==
    {[t \in {1, 2} |-> t], [t \in {1} |-> 1]}

InitHull ==
    /\ \E s \in HullSites, r \in HullRadiiTables :
           hp = NewPackingOfSite(s, r)
    /\ hp_ret = [method |-> "none", exc |-> NoExc]
    /\ hp_n = 0

\* one of the hull methods is called on the object
HullCall ==
    /\ hp_n < MaxHullCalls
    /\ \E m \in HullMethods :
           /\ hp' = CallHullMethod(m, hp).obj
           /\ hp_ret' = [method |-> m, exc |-> CallHullMethod(m, hp).exc]
    /\ hp_n' = hp_n + 1

NextHull ==
    HullCall /\ UNCHANGED <<vaiVars, posVars, cmVars, voroVars, boopVars,
                            rmVars, cwVars, agVars, site_api>>

InitPackingOfSiteHull ==
    /\ InitHull /\ site_api \in SiteApis
    /\ VaiIdle /\ PosIdle /\ CmIdle /\ VoroIdle /\ BoopIdle /\ RemapIdle
    /\ CwIdle /\ AgIdle

SpecPackingOfSiteHull == InitPackingOfSiteHull /\ [][NextHull]_vars

(***************************************************************************)
(* The third statistic group of VolumeAreaInterstice.transform (lines 373  *)
(* and 399), as a function of the per-facet lists and the hull total.      *)
(***************************************************************************)
NFacets == 4       \* facets of the hull whose lists are tried

\* np.array(interstice_list) * np.array(size_list) (lines 358, 386)
interstice_original_array(interstice_list, size_list) ==
    [k \in DOMAIN interstice_list |->
        Rat(interstice_list[k].n * size_list[k], interstice_list[k].d)]

\* interstice_original_array / total * len(size_list) (lines 373, 399)
interstice_avg_array(original_array, total, n) ==
    [k \in DOMAIN original_array |->
        Rat(original_array[k].n * n, original_array[k].d * total)]

\* per-facet interstice fractions and per-facet volumes (or areas)
FractionChoices == {Rat(0, 1), Rat(1, 2)}
SizeChoices == {2, 4}
TotalChoices == {8, 16}

InitAg ==
    /\ \E fr \in [1..NFacets -> FractionChoices],
          sz \in [1..NFacets -> SizeChoices], tot \in TotalChoices :
           ag_args = [interstice_list |-> fr, size_list |-> sz,
                      total |-> tot]
    /\ ag_ret = [done |-> FALSE, sum |-> Rat(0, 1)]

\* calc_stats(interstice_original_array / total * len(size_list)): its sum
AvgGroupStats ==
    /\ ~ag_ret.done
    /\ ag_ret' =
         [done |-> TRUE,
          sum  |-> RatSum(interstice_avg_array(
                       interstice_original_array(ag_args.interstice_list,
                                                 ag_args.size_list),
                       ag_args.total, Len(ag_args.size_list)))]
    /\ UNCHANGED ag_args

NextAvgGroup ==
    AvgGroupStats /\ UNCHANGED <<vaiVars, posVars, cmVars, voroVars, boopVars,
                                 rmVars, hullVars, cwVars, site_api>>

InitAvgGroup ==
    /\ InitAg
    /\ VaiIdle /\ PosIdle /\ CmIdle /\ VoroIdle /\ BoopIdle /\ RemapIdle
    /\ HullIdle /\ CwIdle /\ ApiIdle

SpecAvgGroup == InitAvgGroup /\ [][NextAvgGroup]_vars

(***************************************************************************)
(* amlearn.utils.check.check_within (check.py, lines 56-79), for a scalar  *)
(* x.  A criterion is a sequence; an element is <<v>> for the number v and *)
(* <<>> for None.                                                          *)
(***************************************************************************)
IsNone(e) == e = <<>>

\* x > range_lw, with range_lw = -sys.float_info.max for None: below every
\* x tried
AboveLower(x, e) == IsNone(e) \/ x > e[1]

\* x < range_hi, with range_hi = sys.float_info.max for None
BelowUpper(x, e) == IsNone(e) \/ x < e[1]

check_within(x, criterion, criterion_type) ==
    IF criterion_type = "range"
    THEN IF Len(criterion) < 2
         THEN [exc |-> "ValueError", val |-> FALSE]
         ELSE [exc |-> NoExc,
               val |-> AboveLower(x, criterion[1])
                       /\ BelowUpper(x, criterion[2])]
    ELSE IF criterion_type = "value"
    THEN [exc |-> NoExc, val |-> <<x>> \in Range(criterion)]
    ELSE [exc |-> "RuntimeError", val |-> FALSE]

CwNumbers == 0..4
CwElements == {<<>>, <<1>>, <<3>>}
CwCriteria ==
    {<<lo, hi>> : lo \in CwElements, hi \in CwElements}
    \cup {<<>>, << <<1>> >>, << <<1>>, <<3>>, <<4>> >>}
CwTypes == {"range", "value", "interval"}

InitCw ==
    /\ \E x \in CwNumbers, c \in CwCriteria, t \in CwTypes :
           cw_args = [x |-> x, criterion |-> c, criterion_type |-> t]
    /\ cw_ret = [done |-> FALSE, exc |-> NoExc, val |-> FALSE]

\* check_within(x, criterion, criterion_type) is called
CheckWithinCall ==
    /\ ~cw_ret.done
    /\ cw_ret' =
         [done |-> TRUE,
          exc  |-> check_within(cw_args.x, cw_args.criterion,
                                cw_args.criterion_type).exc,
          val  |-> check_within(cw_args.x, cw_args.criterion,
                                cw_args.criterion_type).val]
    /\ UNCHANGED cw_args

NextCheckWithin ==
    CheckWithinCall /\ UNCHANGED <<vaiVars, posVars, cmVars, voroVars,
                                   boopVars, rmVars, hullVars, agVars,
                                   site_api>>

InitCheckWithin ==
    /\ InitCw
    /\ VaiIdle /\ PosIdle /\ CmIdle /\ VoroIdle /\ BoopIdle /\ RemapIdle
    /\ HullIdle /\ AgIdle /\ ApiIdle

SpecCheckWithin == InitCheckWithin /\ [][NextCheckWithin]_vars


(***************************************************************************)
(* VoroIndex and CharacterMotif.                                           *)
(* An input table is [has_idx, rows]: has_idx says whether the table holds *)
(* the columns 'Voronoi idx3 voro' .. 'Voronoi idx7 voro'; a row is        *)
(* [voro, n, edges]: its index vector (when has_idx), its n_neighbors_voro *)
(* and its neighbor_edge_<i>_voro slots.                                   *)
(***************************************************************************)
\* voronoi_stats.voronoi_index for one atom: the facets in the first n
\* slots are counted by edge number into the bins emin..emax; a facet with
\* more than emax edges goes to the last bin when beyond is set
voronoi_index(n, edges, emin, emax, beyond) ==
    [b \in 1..(emax - emin + 1) |->
        Cardinality({i \in DOMAIN edges :
            /\ i <= n
            /\ \/ edges[i] = emin + b - 1
               \/ beyond /\ b = emax - emin + 1 /\ edges[i] > emax})]

\* VoroIndex(...).fit_transform(X) as CharacterMotif.transform calls it
\* (lines 644-649): edge_min and edge_max are VoroIndex's defaults 3 and 7
VoroIndex_fit_transform(c, Xt) ==
    [has_idx |-> TRUE,
     rows    |-> [a \in DOMAIN Xt.rows |->
                    [Xt.rows[a] EXCEPT !.voro =
                        voronoi_index(Xt.rows[a].n, Xt.rows[a].edges, 3, 7,
                                      c.include_beyond_edge_max)]]]

\* A variant with the two default targets in the other order.
DefaultTargets_swapped == << <<0, 0, 12, 4, 0>>, <<0, 0, 12, 0, 0>> >>

\* the default target_voro_idx (lines 617-619)
DefaultTargets == << <<0, 0, 12, 0, 0>>, <<0, 0, 12, 4, 0>> >>

\* CharacterMotif.__init__ (lines 614-623): target_voro_idx is assigned
\* only when the argument is None
CharacterMotif_init(target_given, target_arg, fk) ==
    [attrs |-> IF target_given THEN {} ELSE {"target_voro_idx"},
     target_voro_idx |-> IF target_given THEN <<>> ELSE DefaultTargets,
     frank_kasper |-> fk,
     voro_depend_cols |-> {"n_neighbors_voro", "neighbor_edge_5_voro"},
     edge_min |-> 3,
     include_beyond_edge_max |-> TRUE]

\* check_dependency(X): None when X holds every column the featurizer
\* depends on, otherwise the neighbor-topology provider
check_dependency(depend_cols, columns) ==
    IF depend_cols \subseteq columns THEN "None" ELSE "provider"

\* CharacterMotif.fit (lines 625-637): the new voro_depend_cols and the
\* number of self._dependency.fit_transform calls (line 636)
CharacterMotif_fit(c, columns) ==
    IF check_dependency(c.voro_depend_cols, columns) = "None"
    THEN IF check_dependency({"Voronoi idx5 voro"}, columns) = "None"
         THEN [voro_depend_cols |-> {"Voronoi idx5 voro"},
               provider_calls |-> 0]
         ELSE [voro_depend_cols |-> {"Voronoi idx5 voro"},
               provider_calls |-> 1]
    ELSE [voro_depend_cols |-> c.voro_depend_cols, provider_calls |-> 1]

\* "_".join(map(str, v)) + " voro"
TargetName(v) ==
    CASE v = <<0, 1, 10, 2, 0>> -> "0_1_10_2_0 voro"
      [] OTHER -> "target voro"

\* A variant with the last two names in the other order.
CharacterMotif_get_feature_names_swapped(c) ==
       <<"is <0,0,12,0,0> voro", "is <0,0,12,4,0> voro">>
    \o [i \in 1..(Len(c.target_voro_idx) - 2) |->
           TargetName(c.target_voro_idx[i + 2])]
    \o <<"is <0,0,12,0/4,0> voro", "is polytetrahedral voro">>

\* CharacterMotif.get_feature_names (lines 683-688)
CharacterMotif_get_feature_names(c) ==
       <<"is <0,0,12,0,0> voro", "is <0,0,12,4,0> voro">>
    \o [i \in 1..(Len(c.target_voro_idx) - 2) |->
           TargetName(c.target_voro_idx[i + 2])]
    \o <<"is polytetrahedral voro", "is <0,0,12,0/4,0> voro">>

\* voronoi_stats.character_motif for one atom: one indicator per target,
\* 1 on an exact match of the index vector, then (frank_kasper = 1) the
\* routine's Frank-Kasper column, whose value fk the routine decides
character_motif(voro, targets, frank_kasper, fk) ==
       [i \in 1..Len(targets) |-> IF voro = targets[i] THEN 1 ELSE 0]
    \o (IF frank_kasper = 1 THEN <<fk>> ELSE <<>>)

\* A variant that combines the two columns with "and".
is_120_124_and(one_hot) ==
    IF one_hot[1] = 1 /\ one_hot[2] = 1 THEN 1 ELSE 0

\* motif_one_hot_array[:, 0] | motif_one_hot_array[:, 1] (line 664)
is_120_124(one_hot) ==
    IF one_hot[1] = 1 \/ one_hot[2] = 1 THEN 1 ELSE 0

NoMotif == [pc |-> "none", exc |-> NoExc, data |-> <<>>, columns |-> <<>>,
            voro_runs |-> 0]

\* A variant that computes the index whatever the table holds.
CharacterMotif_needs_voro_index_always(Xt) == TRUE

\* "Voronoi idx5 voro" not in columns (line 643)
CharacterMotif_needs_voro_index(Xt) == ~Xt.has_idx

\* CharacterMotif.transform (lines 639-681); fks: the Frank-Kasper column
\* voronoi_stats.character_motif yields, one value per atom
CharacterMotif_transform(c, Xt, fks) ==
    LET needs == CharacterMotif_needs_voro_index(Xt)
        runs == IF needs THEN 1 ELSE 0
        X1 == IF needs THEN VoroIndex_fit_transform(c, Xt) ELSE Xt
    IN  IF "target_voro_idx" \notin c.attrs
        THEN [NoMotif EXCEPT !.pc = "raised", !.exc = "AttributeError",
                             !.voro_runs = runs]
        ELSE
        LET one_hot == [a \in DOMAIN X1.rows |->
                          character_motif(X1.rows[a].voro, c.target_voro_idx,
                                          c.frank_kasper, fks[a])]
            arr == [a \in DOMAIN X1.rows |->
                      Append(one_hot[a], is_120_124(one_hot[a]))]
            names == CharacterMotif_get_feature_names(c)
            width == Len(c.target_voro_idx) + c.frank_kasper + 1
        IN  IF width # Len(names)
            THEN [NoMotif EXCEPT !.pc = "raised", !.exc = "ValueError",
                                 !.voro_runs = runs]
            ELSE [pc |-> "returned", exc |-> NoExc, data |-> arr,
                  columns |-> names, voro_runs |-> runs]

\* the index vector transform classifies for atom a
IndexOf(c, Xt, a) ==
    IF Xt.has_idx THEN Xt.rows[a].voro
    ELSE VoroIndex_fit_transform(c, Xt).rows[a].voro

\* the value of the column labelled name for atom a of a returned table
Column(ret, a, name) ==
    ret.data[a][CHOOSE i \in DOMAIN ret.columns : ret.columns[i] = name]

IndexChoices == {<<0, 0, 12, 0, 0>>, <<0, 0, 12, 4, 0>>, <<0, 2, 8, 2, 0>>,
                 <<0, 3, 6, 4, 0>>}

\* rows of a table that holds the index columns; the last one holds the
\* raw columns as well, with facets that do not give the stored index
IdxRows == {[voro |-> v, n |-> 0, edges |-> <<>>] : v \in IndexChoices}
           \cup {[voro |-> <<0, 0, 12, 0, 0>>, n |-> 3,
                  edges |-> <<4, 5, 6, 0>>]}

\* the columns of the table given to fit
FitColumns == SUBSET {"n_neighbors_voro", "neighbor_edge_5_voro",
                      "Voronoi idx5 voro"}

NoFit == [pc |-> "none", columns |-> {}, provider_calls |-> 0]

RawRows == {[voro |-> <<>>, n |-> 12, edges |-> [i \in 1..12 |-> 5]],
            [voro |-> <<>>, n |-> 3, edges |-> <<4, 5, 6, 0>>],
            [voro |-> <<>>, n |-> 2, edges |-> <<8, 3, 5, 0>>]}

MotifTables ==
    UNION {{[has_idx |-> TRUE, rows |-> r] : r \in [1..n -> IdxRows]}
           \cup {[has_idx |-> FALSE, rows |-> r] : r \in [1..n -> RawRows]}
           : n \in 0..MaxAtoms}

InitCM ==
    /\ \E g \in BOOLEAN, fk \in {0, 1} :
          cm = CharacterMotif_init(
                   g, DefaultTargets \o << <<0, 1, 10, 2, 0>> >>, fk)
    /\ cm_X \in MotifTables
    /\ cm_ret = NoMotif
    /\ \E cols \in FitColumns : cm_fit = [NoFit EXCEPT !.columns = cols]

\* fit(X) is called on a table with the columns cm_fit.columns
CharacterMotifFit ==
    /\ cm_fit.pc = "none" /\ cm_ret.pc = "none"
    /\ LET o == CharacterMotif_fit(cm, cm_fit.columns)
       IN  /\ cm' = [cm EXCEPT !.voro_depend_cols = o.voro_depend_cols]
           /\ cm_fit' = [cm_fit EXCEPT !.pc = "done",
                             !.provider_calls = o.provider_calls]
    /\ UNCHANGED <<cm_X, cm_ret>>

\* transform(X) is called
CharacterMotifTransform ==
    /\ cm_ret.pc = "none"
    /\ \E fks \in [DOMAIN cm_X.rows -> {0, 1}] :
          cm_ret' = CharacterMotif_transform(cm, cm_X, fks)
    /\ UNCHANGED <<cm, cm_X, cm_fit>>

NextCM ==
    \/ CharacterMotifFit
        /\ UNCHANGED <<vaiVars, posVars, voroVars, boopVars, rmVars,
                     hullVars, cwVars, agVars, site_api>>
    \/ CharacterMotifTransform
        /\ UNCHANGED <<vaiVars, posVars, voroVars, boopVars, rmVars,
                     hullVars, cwVars, agVars, site_api>>

InitCharacterMotif ==
    InitCM /\ VaiIdle /\ PosIdle /\ VoroIdle /\ BoopIdle /\ RemapIdle
    /\ HullIdle /\ CwIdle /\ AgIdle /\ ApiIdle

SpecCharacterMotif == InitCharacterMotif /\ [][NextCM]_vars


(***************************************************************************)
(* VoroIndex.transform and IFoldSymmetry.transform.                        *)
(* The input table is a sequence of rows [n, edges]: n_neighbors_voro and  *)
(* the neighbor_edge_<i>_voro slots; slots beyond n are padding and may    *)
(* hold anything.                                                          *)
(***************************************************************************)
\* VoroIndex.__init__ (lines 557-560); IFoldSymmetry.__init__ keeps the
\* same three fields (lines 704-706)
VoroIndex_init(emin, emax, beyond) ==
    [edge_min |-> emin, edge_max |-> emax, include_beyond_edge_max |-> beyond]

\* VoroIndex.get_feature_names (lines 596-600): 'Voronoi idx<edge> voro'
VoroIndex_get_feature_names(v) ==
    [i \in 1..(v.edge_max - v.edge_min + 1) |->
        <<"Voronoi idx", v.edge_min + i - 1, "voro">>]

\* IFoldSymmetry.get_feature_names (lines 742-745)
IFoldSymmetry_get_feature_names(v) ==
    [i \in 1..(v.edge_max - v.edge_min + 1) |->
        <<v.edge_min + i - 1, "-fold symm idx voro">>]

NoStats == [pc |-> "none", data |-> <<>>, columns |-> <<>>]

\* A variant that hands the routine the slot count as the neighbor count.
VoroIndex_transform_all_slots(v, Xt) ==
    [pc      |-> "returned",
     data    |-> [a \in DOMAIN Xt |->
                    voronoi_index(Len(Xt[a].edges), Xt[a].edges, v.edge_min,
                                  v.edge_max, v.include_beyond_edge_max)],
     columns |-> VoroIndex_get_feature_names(v)]

\* VoroIndex.transform (lines 566-594)
VoroIndex_transform(v, Xt) ==
    [pc      |-> "returned",
     data    |-> [a \in DOMAIN Xt |->
                    voronoi_index(Xt[a].n, Xt[a].edges, v.edge_min,
                                  v.edge_max, v.include_beyond_edge_max)],
     columns |-> VoroIndex_get_feature_names(v)]

\* voronoi_stats.i_fold_symmetry for one atom: per bin, the number of
\* facets counted in the bin divided by the total facet count n
i_fold_symmetry(n, edges, emin, emax, beyond) ==
    LET hist == voronoi_index(n, edges, emin, emax, beyond)
    IN  [b \in DOMAIN hist |-> IF n = 0 THEN Rat(0, 1) ELSE Rat(hist[b], n)]

\* A variant that hands the routine the slot count as the neighbor count.
IFoldSymmetry_transform_all_slots(v, Xt) ==
    [pc      |-> "returned",
     data    |-> [a \in DOMAIN Xt |->
                    i_fold_symmetry(Len(Xt[a].edges), Xt[a].edges, v.edge_min,
                                    v.edge_max, v.include_beyond_edge_max)],
     columns |-> IFoldSymmetry_get_feature_names(v)]

\* IFoldSymmetry.transform (lines 712-740)
IFoldSymmetry_transform(v, Xt) ==
    [pc      |-> "returned",
     data    |-> [a \in DOMAIN Xt |->
                    i_fold_symmetry(Xt[a].n, Xt[a].edges, v.edge_min,
                                    v.edge_max, v.include_beyond_edge_max)],
     columns |-> IFoldSymmetry_get_feature_names(v)]

VoroConfigs ==
    {VoroIndex_init(emin, emax, b) :
        emin \in {3, 4}, emax \in {5, 7}, b \in BOOLEAN}

\* rows of the edge table; the third and the fifth hold values in padding
\* slots, the third and the fourth facets of more than 7 edges
EdgeRows ==
    {[n |-> 0, edges |-> <<0, 0, 0, 0>>],
     [n |-> 4, edges |-> <<3, 4, 5, 6>>],
     [n |-> 3, edges |-> <<5, 5, 8, 5>>],
     [n |-> 4, edges |-> <<4, 5, 5, 9>>],
     [n |-> 2, edges |-> <<4, 5, 5, 0>>],
     [n |-> 4, edges |-> <<5, 5, 5, 5>>]}

VoroTables == UNION {[1..n -> EdgeRows] : n \in 0..MaxAtoms}

InitVoro ==
    /\ vidx \in VoroConfigs
    /\ vidx_X \in VoroTables
    /\ vidx_ret = NoStats
    /\ symm_ret = NoStats

\* VoroIndex(...).transform(X) is called
VoroIndexTransform ==
    /\ vidx_ret.pc = "none"
    /\ vidx_ret' = VoroIndex_transform(vidx, vidx_X)
    /\ UNCHANGED <<vidx, vidx_X, symm_ret>>

\* IFoldSymmetry(...).transform(X) is called
IFoldSymmetryTransform ==
    /\ symm_ret.pc = "none"
    /\ symm_ret' = IFoldSymmetry_transform(vidx, vidx_X)
    /\ UNCHANGED <<vidx, vidx_X, vidx_ret>>

NextVoro ==
    \/ VoroIndexTransform
        /\ UNCHANGED <<vaiVars, posVars, cmVars, boopVars, rmVars,
                     hullVars, cwVars, agVars, site_api>>
    \/ IFoldSymmetryTransform
        /\ UNCHANGED <<vaiVars, posVars, cmVars, boopVars, rmVars,
                     hullVars, cwVars, agVars, site_api>>

InitVoronoiStats ==
    InitVoro /\ VaiIdle /\ PosIdle /\ CmIdle /\ BoopIdle /\ RemapIdle
    /\ HullIdle /\ CwIdle /\ AgIdle /\ ApiIdle

SpecVoronoiStats == InitVoronoiStats /\ [][NextVoro]_vars


(***************************************************************************)
(* BOOP.                                                                   *)
(* The arguments of the constructor are modelled by what the code asks of  *)
(* them: coords_path is "None", "missing" (no such file) or "exists";      *)
(* atom_coords and Bds are "None" or "given"; pbc is "None", "empty" (an   *)
(* empty list) or "given" (a non-empty list).                              *)
(***************************************************************************)
\* read_imd(coords_path) on an existing file: its coordinates and bounds
read_imd == [atom_coords |-> "file", Bds |-> "file"]

\* self.bq_tags (line 1200)
bq_tags == <<"4", "6", "8", "10">>

\* A variant of the constructor without the test of line 1189.
BOOP_init_unchecked(a) ==
    [exc |-> NoExc,
     obj |-> [atom_coords |-> a.atom_coords, Bds |-> a.Bds,
              pbc |-> IF a.pbc = "given" THEN "given" ELSE "[1, 1, 1]",
              n_neighbor_limit |-> a.n_neighbor_limit,
              bq_tags |-> bq_tags]]

\* BOOP.__init__ (lines 1169-1200)
BOOP_init(a) ==
    LET from_file == a.coords_path # "None" /\ a.coords_path = "exists"
        atom_coords == IF from_file THEN read_imd.atom_coords
                       ELSE a.atom_coords
        Bds == IF from_file THEN read_imd.Bds ELSE a.Bds
    IN  IF atom_coords = "None" \/ Bds = "None"
        THEN [exc |-> "ValueError", obj |-> <<>>]
        ELSE [exc |-> NoExc,
              obj |-> [atom_coords |-> atom_coords, Bds |-> Bds,
                       pbc |-> IF a.pbc = "given" THEN "given"
                               ELSE "[1, 1, 1]",
                       n_neighbor_limit |-> a.n_neighbor_limit,
                       bq_tags |-> bq_tags]]

\* boop.calculate_boop: four arrays of n_atoms x 4 values, one column per
\* order; a value is named by its array, its atom and its column
calculate_boop(atoms) ==
    [arr \in {"Ql", "Wlbar", "coarse_Ql", "coarse_Wlbar"} |->
        [a \in atoms |-> [k \in 1..4 |-> <<arr, a, k>>]]]

\* A variant with the w names ahead of the q names.
BOOP_get_feature_names_w_first(b) ==
       [k \in 1..4 |-> <<"w_", b.bq_tags[k], "voro">>]
    \o [k \in 1..4 |-> <<"q_", b.bq_tags[k], "voro">>]
    \o [k \in 1..4 |-> <<"Coarse-grained q_", b.bq_tags[k], "voro">>]
    \o [k \in 1..4 |-> <<"Coarse-grained w_", b.bq_tags[k], "voro">>]

\* BOOP.get_feature_names (lines 1238-1249)
BOOP_get_feature_names(b) ==
       [k \in 1..4 |-> <<"q_", b.bq_tags[k], "voro">>]
    \o [k \in 1..4 |-> <<"w_", b.bq_tags[k], "voro">>]
    \o [k \in 1..4 |-> <<"Coarse-grained q_", b.bq_tags[k], "voro">>]
    \o [k \in 1..4 |-> <<"Coarse-grained w_", b.bq_tags[k], "voro">>]

NoBoop == [pc |-> "none", exc |-> NoExc, index |-> <<>>, data |-> <<>>,
           columns |-> <<>>]

\* BOOP.transform (lines 1202-1236) on a table [width, index]: width
\* neighbor_id columns and one row per entry of index
BOOP_transform(b, Xt) ==
    IF b.n_neighbor_limit > Xt.width
    THEN [NoBoop EXCEPT !.pc = "raised", !.exc = "KeyError"]
    ELSE LET out == calculate_boop(DOMAIN Xt.index)
             concat_array ==
                 [a \in DOMAIN Xt.index |->
                     out["Ql"][a] \o out["Wlbar"][a]
                     \o out["coarse_Ql"][a] \o out["coarse_Wlbar"][a]]
         IN  [pc |-> "returned", exc |-> NoExc, index |-> Xt.index,
              data |-> concat_array, columns |-> BOOP_get_feature_names(b)]

BoopArgs ==
    [coords_path : {"None", "missing", "exists"},
     atom_coords : {"None", "given"},
     Bds : {"None", "given"},
     pbc : {"None", "empty", "given"},
     n_neighbor_limit : {2, 3}]

BoopTables ==
    UNION {[width : {2, 3}, index : [1..n -> {7}]] : n \in 0..MaxAtoms}

NotMade == [exc |-> NoExc, obj |-> <<>>, pc |-> "none"]

InitBoop ==
    /\ boop_args \in BoopArgs
    /\ boop = NotMade
    /\ boop_X \in BoopTables
    /\ boop_ret = NoBoop

\* BOOP(...) is called
BOOPConstruct ==
    /\ boop.pc = "none"
    /\ LET o == BOOP_init(boop_args)
       IN  boop' = [exc |-> o.exc, obj |-> o.obj,
                    pc |-> IF o.exc = NoExc THEN "made" ELSE "raised"]
    /\ UNCHANGED <<boop_args, boop_X, boop_ret>>

\* transform(X) is called on the constructed object
BOOPTransform ==
    /\ boop.pc = "made" /\ boop_ret.pc = "none"
    /\ boop_ret' = BOOP_transform(boop.obj, boop_X)
    /\ UNCHANGED <<boop_args, boop, boop_X>>

NextBOOP ==
    \/ BOOPConstruct
        /\ UNCHANGED <<vaiVars, posVars, cmVars, voroVars, rmVars,
                     hullVars, cwVars, agVars, site_api>>
    \/ BOOPTransform
        /\ UNCHANGED <<vaiVars, posVars, cmVars, voroVars, rmVars,
                     hullVars, cwVars, agVars, site_api>>

InitBOOP ==
    InitBoop /\ VaiIdle /\ PosIdle /\ CmIdle /\ VoroIdle /\ RemapIdle
    /\ HullIdle /\ CwIdle /\ AgIdle /\ ApiIdle

SpecBOOP == InitBOOP /\ [][NextBOOP]_vars


(***************************************************************************)
(* VolumeAreaInterstice.__init__ over a coordinate table the caller keeps: *)
(* lmp_df is stored by reference, and the remapping of lines 280-282       *)
(* assigns the type column of that very table.                             *)
(***************************************************************************)
\* list[i] in Python, i counted from 0; a negative i counts from the end
PyIndex(list, i) ==
    IF 0 <= i /\ i < Len(list)
    THEN [exc |-> NoExc, val |-> list[i + 1]]
    ELSE IF i < 0 /\ -Len(list) <= i
    THEN [exc |-> NoExc, val |-> list[Len(list) + i + 1]]
    ELSE [exc |-> "IndexError", val |-> 0]

\* lines 280-282 on the type column df: each x becomes
\* types_atomic_number_list[x-1]; the column is assigned only when no
\* lookup raised
VolumeAreaInterstice_init_remap(df, tl) ==
    IF ~tl.given
    THEN [exc |-> NoExc, df |-> df]
    ELSE IF \E a \in DOMAIN df : PyIndex(tl.list, df[a] - 1).exc # NoExc
    THEN [exc |-> "IndexError", df |-> df]
    ELSE [exc |-> NoExc,
          df  |-> [a \in DOMAIN df |-> PyIndex(tl.list, df[a] - 1).val]]

\* the type columns: one to MaxAtoms atoms of the local types 1..3
TypeColumns == UNION {[1..n -> 1..3] : n \in 1..MaxAtoms}

TypeLists ==
    {[given |-> FALSE, list |-> <<>>],
     [given |-> TRUE, list |-> <<29, 40, 13>>],
     [given |-> TRUE, list |-> <<2, 3, 1>>],
     [given |-> TRUE, list |-> <<1, 2, 3>>],
     [given |-> TRUE, list |-> <<29, 40>>]}

InitRm ==
    /\ rm_df \in TypeColumns
    /\ rm_list \in TypeLists
    /\ rm_made = <<>>

\* VolumeAreaInterstice(lmp_df=df, types_atomic_number_list=list, ...) is
\* called once more with the same table and the same list
ConstructVAI ==
    /\ Len(rm_made) < MaxMade
    /\ LET o == VolumeAreaInterstice_init_remap(rm_df, rm_list)
       IN  /\ rm_df' = o.df
           /\ rm_made' = Append(rm_made,
                              [exc |-> o.exc, before |-> rm_df,
                               after |-> o.df])
    /\ UNCHANGED rm_list

NextRemap ==
    ConstructVAI /\ UNCHANGED <<vaiVars, posVars, cmVars, voroVars, boopVars,
                     hullVars, cwVars, agVars, site_api>>

InitRemap ==
    InitRm /\ VaiIdle /\ PosIdle /\ CmIdle /\ VoroIdle /\ BoopIdle
    /\ HullIdle /\ CwIdle /\ AgIdle /\ ApiIdle

SpecRemap == InitRemap /\ [][NextRemap]_vars


(***************************************************************************)
(* Properties of VolumeAreaInterstice.transform (checked under Spec).      *)
(***************************************************************************)
\* the row loop has passed row i and appended its feature row
Processed(i) == t_pc # "idle" /\ t_k > i

\* the call ended with an exception raised while row i was processed
RaisedAt(i) == t_pc = "raised" /\ t_k = i

Finished == t_pc \in {"returned", "raised"}

\* C1: a row with fewer than 4 valid neighbors raises no error, and the
\* feature row emitted for it is all zeros of the width of
\* get_feature_names().
C1_FewNeighborsZeroRow ==
    \A i \in DOMAIN X :
        NValid(X[i]) < 4 =>
            /\ ~RaisedAt(i)
            /\ Processed(i) => feature_lists[i] = ZeroRow(vai)

\* C2: a row with at least 4 neighbors whose coordinates are coplanar or
\* colinear raises no error and gets the same all-zero row; the loop goes on.
C2_DegenerateHullZeroRow ==
    \A i \in DOMAIN X :
        (NValid(X[i]) >= 4 /\ Degenerate(X[i])) =>
            /\ ~RaisedAt(i)
            /\ Processed(i) => feature_lists[i] = ZeroRow(vai)

\* C3: once the loop has reached a row with at least 4 (non-degenerate)
\* neighbors, a feature row is built for it; it has as many values as
\* get_feature_names() has names, and its i-th value is the quantity the
\* i-th name names.
C3_ComputedRowLayout ==
    \A i \in DOMAIN X :
        (NValid(X[i]) >= 4 /\ ~Degenerate(X[i])
            /\ (Processed(i) \/ RaisedAt(i))) =>
            /\ Processed(i)
            /\ Len(feature_lists[i]) = Len(get_feature_names(vai))
            /\ \A j \in DOMAIN feature_lists[i] :
                   feature_lists[i][j] = get_feature_names(vai)[j]

\* C4: after k rows are processed there are k feature rows, and a finished
\* call has returned one feature row per row of X, indexed in X's order.
C4_OneRowPerInputRow ==
    /\ t_pc # "idle" => Len(feature_lists) = t_k - 1
    /\ Finished =>
          /\ t_pc = "returned"
          /\ Len(t_ret.rows) = Len(X)
          /\ t_ret.index = [i \in DOMAIN X |-> X[i].idx]

\* C5: two successive transform calls on the same inputs both produce an
\* output table, and the two tables are identical.
C5_RepeatedRunSameTable ==
    (Finished /\ prev.pc # "none") =>
        /\ prev.pc = "returned" /\ t_pc = "returned"
        /\ t_ret = prev.ret

\* some row of X refers (as center or as neighbor) to an atom whose type has
\* no entry in the radius table
MissingRadiusReferenced ==
    \E i \in DOMAIN X :
        \/ lmp_df[X[i].idx].type \notin DOMAIN radii
        \/ \E id \in Range(NeighborIds(X[i])) :
               lmp_df[id].type \notin DOMAIN radii

\* C6: when the radius table lacks the type of a referenced atom, the call
\* ends with the failed radius lookup (a KeyError), returns no table and
\* has emitted no zero row.
C6_MissingRadiusAborts ==
    (Finished /\ MissingRadiusReferenced) =>
        /\ t_pc = "raised" /\ t_exc = "KeyError"
        /\ t_ret = NoTable

(***************************************************************************)
(* Properties of PackingOfSite.glass_packing_efficiency (checked under     *)
(* SpecPackingOfSite).                                                     *)
(***************************************************************************)
GlassCalled == pos_ret.method = "glass_packing_efficiency"

\* the radius table has an entry for the center and for every neighbor
RadiiCover ==
    /\ pos.site.type \in DOMAIN pos.radii
    /\ \A i \in DOMAIN pos.site.nb_types :
           pos.site.nb_types[i] \in DOMAIN pos.radii

\* C7: glass_packing_efficiency raises for every coordination number
\* outside 3..24 (whatever the radius table), and returns a value for every
\* coordination number inside 3..24 (the radii of the site's types given).
C7_GlassFailsOutsideRange ==
    GlassCalled =>
        /\ Site_cn(pos.site) \notin 3..24 => pos_ret.exc # NoExc
        /\ (Site_cn(pos.site) \in 3..24 /\ RadiiCover) => pos_ret.exc = NoExc

\* a call on a site of 25 neighbors, all radii known, ended with a KeyError
C7_Witness ==
    /\ GlassCalled /\ RadiiCover
    /\ Site_cn(pos.site) = 25 /\ pos_ret.exc = "KeyError"

\* the sum of the radii of the site's neighbors, neighbor by neighbor
NeighborRadiusSum ==
    SumSeq([i \in DOMAIN pos.site.nb_types |->
               pos.radii[pos.site.nb_types[i]]])

\* C8: the value returned is r_center / (sum of neighbor radii / cn) minus
\* ideal_ratio_[cn]; it is exactly 0 when that radius ratio equals the
\* table's ideal ratio for the coordination number.
C8_GlassFormula ==
    (GlassCalled /\ pos_ret.exc = NoExc) =>
        LET cn    == Site_cn(pos.site)
            ratio == Rat(pos.radii[pos.site.type] * cn, NeighborRadiusSum)
        IN  /\ pos_ret.val.ratio = ratio
            /\ pos_ret.val.ideal = Rat(ideal_ratio_[cn], 1000000)
            /\ ratio = Rat(ideal_ratio_[cn], 1000000)
                   => GPEIsZero(pos_ret.val)

\* a call returned exactly 0: 22 neighbors of radius 2500 around a center
\* of radius 3871 (3871 / 2500 = 1.5484 = ideal_ratio_[22])
C8_Witness ==
    /\ GlassCalled /\ pos_ret.exc = NoExc
    /\ Site_cn(pos.site) = 22
    /\ GPEIsZero(pos_ret.val)

(***************************************************************************)
(* Properties of CharacterMotif.transform (checked under                   *)
(* SpecCharacterMotif).                                                    *)
(***************************************************************************)
Or01(x, y) == IF x = 1 \/ y = 1 THEN 1 ELSE 0

Facets(row) == {i \in DOMAIN row.edges : i <= row.n}

\* the facets of a row the index counts: those of at least edge_min edges
\* and, unless the overflow bucket is enabled, of at most edge_max edges
CountedFacets(v, row) ==
    {i \in Facets(row) :
        /\ row.edges[i] >= v.edge_min
        /\ v.include_beyond_edge_max \/ row.edges[i] <= v.edge_max}

\* C11 as stated: for every atom the entries of its Voronoi index sum to
\* the atom's total facet count.
C11_Original ==
    vidx_ret.pc = "returned" =>
        \A a \in DOMAIN vidx_X :
            SumSeq(vidx_ret.data[a]) = vidx_X[a].n

\* C11 amended: for every atom the entries of its Voronoi index sum to the
\* number of its facets that have at least edge_min edges and, when
\* include_beyond_edge_max is disabled, at most edge_max edges (the total
\* facet count when no facet falls outside); every facet of more than
\* edge_max edges is in the last bin when the bucket is enabled; a padding
\* slot beyond the neighbor count is never counted.
C11_IndexSum ==
    vidx_ret.pc = "returned" =>
        \A a \in DOMAIN vidx_X :
            LET row == vidx_X[a]
                idx == vidx_ret.data[a]
            IN  /\ Len(idx) = Len(vidx_ret.columns)
                /\ SumSeq(idx) = Cardinality(CountedFacets(vidx, row))
                /\ SumSeq(idx) <= row.n
                /\ CountedFacets(vidx, row) = Facets(row)
                      => SumSeq(idx) = row.n
                /\ vidx.include_beyond_edge_max =>
                      idx[Len(idx)] >=
                          Cardinality({i \in Facets(row) :
                                          row.edges[i] > vidx.edge_max})

\* an index computed with the overflow bucket for an atom that has a facet
\* of more than edge_max edges and a padding slot holding an edge count of
\* the range
C11_Witness ==
    /\ vidx_ret.pc = "returned"
    /\ vidx.include_beyond_edge_max
    /\ \E a \in DOMAIN vidx_X :
          /\ \E i \in Facets(vidx_X[a]) : vidx_X[a].edges[i] > vidx.edge_max
          /\ \E i \in DOMAIN vidx_X[a].edges :
                /\ i > vidx_X[a].n
                /\ vidx_X[a].edges[i] \in vidx.edge_min..vidx.edge_max
          /\ SumSeq(vidx_ret.data[a]) = vidx_X[a].n

\* the case of C12: an atom with a facet, the overflow bucket disabled and
\* every facet of edge_min..edge_max edges
AllFacetsInRange(v, row) ==
    /\ row.n >= 1
    /\ ~v.include_beyond_edge_max
    /\ \A i \in Facets(row) : row.edges[i] \in v.edge_min..v.edge_max

\* C12: for an atom with at least one facet, with include_beyond_edge_max
\* disabled and every facet of edge_min..edge_max edges, each i-fold
\* symmetry fraction is the number of facets of exactly that edge count
\* divided by the total facet count, and the fractions sum to exactly 1.
C12_SymmetrySumsToOne ==
    symm_ret.pc = "returned" =>
        \A a \in DOMAIN vidx_X :
            AllFacetsInRange(vidx, vidx_X[a]) =>
                LET row == vidx_X[a]
                    fr  == symm_ret.data[a]
                IN  /\ Len(fr) = vidx.edge_max - vidx.edge_min + 1
                    /\ \A b \in DOMAIN fr :
                          fr[b] = Rat(Cardinality({i \in Facets(row) :
                                      row.edges[i] = vidx.edge_min + b - 1}),
                                      row.n)
                    /\ RatSum(fr) = Rat(1, 1)

\* fractions returned for an atom of the case whose facets fall in more
\* than one bin and whose row has a padding slot
C12_Witness ==
    /\ symm_ret.pc = "returned"
    /\ \E a \in DOMAIN vidx_X :
          /\ AllFacetsInRange(vidx, vidx_X[a])
          /\ vidx_X[a].n < Len(vidx_X[a].edges)
          /\ \E b, c \in DOMAIN symm_ret.data[a] :
                b # c /\ symm_ret.data[a][b].n > 0
                      /\ symm_ret.data[a][c].n > 0


GeometryPresent(a) ==
    \/ a.coords_path = "exists"
    \/ a.atom_coords # "None" /\ a.Bds # "None"

BoopNameArray(name) ==
    CASE name[1] = "q_" -> "Ql"
      [] name[1] = "w_" -> "Wlbar"
      [] name[1] = "Coarse-grained q_" -> "coarse_Ql"
      [] name[1] = "Coarse-grained w_" -> "coarse_Wlbar"

\* C15: transform emits for every atom one row of 16 values in the order
\* Ql, Wlbar, coarse Ql, coarse Wlbar, each over the orders 4, 6, 8, 10,
\* and the i-th name of get_feature_names() names the i-th value.
C15_BoopRowLayout ==
    /\ (boop.pc = "made" /\ boop_ret.pc # "none"
           /\ boop.obj.n_neighbor_limit <= boop_X.width)
          => boop_ret.pc = "returned"
    /\ boop_ret.pc = "returned" =>
          /\ Len(boop_ret.data) = Len(boop_X.index)
          /\ boop_ret.index = boop_X.index
          /\ Len(boop_ret.columns) = 16
          /\ \A a \in DOMAIN boop_ret.data :
                /\ Len(boop_ret.data[a]) = 16
                /\ \A i \in 1..16 :
                      LET v == boop_ret.data[a][i]
                          name == boop_ret.columns[i]
                          k == ((i - 1) % 4) + 1
                      IN  /\ v[1] = <<"Ql", "Wlbar", "coarse_Ql",
                                      "coarse_Wlbar">>[((i - 1) \div 4) + 1]
                          /\ v[2] = a
                          /\ v[3] = k
                          /\ name[2] = <<"4", "6", "8", "10">>[k]
                          /\ BoopNameArray(name) = v[1]

\* a returned table with a row
C15_Witness ==
    /\ boop_ret.pc = "returned"
    /\ Len(boop_ret.data) >= 1
    /\ boop_ret.data[1][5] = <<"Wlbar", 1, 1>>
    /\ boop_ret.columns[5] = <<"w_", "4", "voro">>


(***************************************************************************)
(* Properties of the type remapping (checked under SpecRemap).             *)
(***************************************************************************)
\* C16: the remapping list is applied exactly once to the type column:
\* each local type k (1 <= k <= length of the list) becomes list[k-1], and
\* a further featurizer constructed over the same table with the same list
\* does not remap the remapped types again.
C16_RemapAppliedOnce ==
    \A j \in DOMAIN rm_made :
        LET orig == rm_made[1].before
        IN  (/\ rm_list.given
             /\ \A a \in DOMAIN orig : orig[a] \in 1..Len(rm_list.list))
            => /\ rm_made[j].exc = NoExc
               /\ rm_made[j].after =
                      [a \in DOMAIN orig |-> rm_list.list[orig[a]]]


(***************************************************************************)
(* Further properties of VolumeAreaInterstice.transform (under Spec).      *)
(***************************************************************************)
\* the row loop has just taken up row i: it went through or it raised
Attempted(i) == RaisedAt(i) \/ (t_pc = "rows" /\ t_k = i + 1)

\* the ids in the slots of a row below its n_neighbors count
IdsBelowCount(row) == SelectPos(SubSeq(row.nbr, 1, row.n))

\* C17: the neighbor set transform uses for an atom comes only from the
\* neighbor-id slots below the atom's n_neighbors count, non-positive ids
\* being unused; a value stored in a slot at or beyond the count is never
\* read.
C17_OnlySlotsBelowCount ==
    \A i \in DOMAIN X :
        Attempted(i) => site_dict[X[i].idx] = IdsBelowCount(X[i])

AtomsWithRow == {X[i].idx : i \in DOMAIN feature_lists}

\* C19: when transform fails while an atom is being processed nothing
\* partial is left for that atom: no side list (volume_interstice_list,
\* volume_list, area_interstice_list, area_list) holds an entry for an atom
\* that has no feature row.
C19_NoPartialAtom ==
    /\ Range(side.volume_interstice_list) \subseteq AtomsWithRow
    /\ Range(side.volume_list) \subseteq AtomsWithRow
    /\ Range(side.area_interstice_list) \subseteq AtomsWithRow
    /\ Range(side.area_list) \subseteq AtomsWithRow
    /\ Len(feature_lists) <= Len(X)

\* transform has failed on an atom of five neighbors with volume and area
\* features requested, and no side list holds an entry
C19_Witness ==
    /\ RaisedAt(1)
    /\ NValid(X[1]) >= 4
    /\ vai.calc_volume_area = "all"
    /\ side = NoLists
    /\ feature_lists = <<>>


(***************************************************************************)
(* Properties of CharacterMotif.fit (checked under SpecCharacterMotif).    *)
(***************************************************************************)
\* C20: fit does not invoke the neighbor-topology provider when the table
\* holds the column 'Voronoi idx5 voro', even without the raw neighbor_edge
\* columns; the provider is invoked only when neither the raw columns nor
\* the index column is there.
C20_FitSkipsProvider ==
    cm_fit.pc = "done" =>
        /\ "Voronoi idx5 voro" \in cm_fit.columns
              => cm_fit.provider_calls = 0
        /\ cm_fit.provider_calls > 0 =>
              /\ "Voronoi idx5 voro" \notin cm_fit.columns
              /\ ~({"n_neighbors_voro", "neighbor_edge_5_voro"}
                       \subseteq cm_fit.columns)


(***************************************************************************)
(* Degenerate facets, the tetra interstice and the hull memo.              *)
(***************************************************************************)
\* every radius the interstice steps look up is in the table
HullRadiiComplete ==
    /\ hp.site.type \in DOMAIN hp.radii
    /\ Range(hp.site.nb_types) \subseteq DOMAIN hp.radii

\* the hull of the object has a facet of area 0 or a tetrahedron of volume 0
HasDegenerateFacet ==
    \E k \in DOMAIN hp.site.hull :
        hp.site.hull[k].area = 0 \/ hp.site.hull[k].vol = 0

\* C21: on a hull with a facet of zero area or a tetrahedron of zero
\* volume, an interstice step run after its angle step ends without an
\* error, has processed every facet, and no entry of its interstice list
\* is a division by zero.
C21_DegenerateFacetSkipped ==
    /\ ( /\ hp_ret.method = "analyze_hull_facet_interstice"
         /\ "triangular_angle_lists_" \in hp.attrs
         /\ HasDegenerateFacet /\ HullRadiiComplete )
       => /\ hp_ret.exc = NoExc
          /\ Len(hp.area_interstice_list) = Len(hp.site.hull)
          /\ \A k \in DOMAIN hp.area_interstice_list :
                 hp.area_interstice_list[k].total # 0
    /\ ( /\ hp_ret.method = "analyze_hull_tetra_interstice"
         /\ "solid_angle_lists_" \in hp.attrs
         /\ HasDegenerateFacet /\ HullRadiiComplete )
       => /\ hp_ret.exc = NoExc
          /\ Len(hp.volume_interstice_list) = Len(hp.site.hull)
          /\ \A k \in DOMAIN hp.volume_interstice_list :
                 hp.volume_interstice_list[k].total # 0

\* the packed volume the tetra step is to record for facet f: the cones of
\* the vertices with a non-zero solid angle plus the cone of the center
ExpectedTetraPacked(f) ==
    Rat(SumSeq([j \in 1..3 |->
            IF f.sa[j] = 0 THEN 0
            ELSE f.sa[j] * (hp.radii[hp.site.nb_types[f.simplex[j]]] ^ 3)])
        + f.csa * (hp.radii[hp.site.type] ^ 3), 3)

\* C22: analyze_hull_tetra_interstice, run after the solid angles were
\* computed, records for every facet 1 - packed_volume / tetra_volume with
\* packed_volume the sum of (solid angle / 3) * r^3 over the vertices of
\* non-zero solid angle plus (center solid angle / 3) * r_center^3.
C22_TetraIntersticeRecorded ==
    ( /\ hp_ret.method = "analyze_hull_tetra_interstice"
      /\ "solid_angle_lists_" \in hp.attrs
      /\ HullRadiiComplete )
    => /\ hp_ret.exc = NoExc
       /\ hp.volume_interstice_list =
              [k \in DOMAIN hp.site.hull |->
                  [packed |-> ExpectedTetraPacked(hp.site.hull[k]),
                   total  |-> hp.site.hull[k].vol]]

C23_AvgSumIsFractionOfTotal ==
    ag_ret.done =>
        ag_ret.sum =
            LET s == RatSum(interstice_original_array(
                                ag_args.interstice_list, ag_args.size_list))
            IN  Rat(s.n, s.d * ag_args.total)

\* C30: for a two-element range [lo, hi], check_within returns True
\* exactly when lo <= x <= hi, a None bound being no bound.
C30_RangeInclusive ==
    ( /\ cw_ret.done /\ cw_args.criterion_type = "range"
      /\ Len(cw_args.criterion) = 2 )
    => /\ cw_ret.exc = NoExc
       /\ cw_ret.val <=>
            /\ IsNone(cw_args.criterion[1])
                  \/ cw_args.criterion[1][1] <= cw_args.x
            /\ IsNone(cw_args.criterion[2])
                  \/ cw_args.x <= cw_args.criterion[2][1]


(***************************************************************************)
(* Order of the steps of transform, its side lists and its inputs          *)
(* (checked under Spec).                                                   *)
(***************************************************************************)
\* the radius table has an entry for the atom of the row and its neighbors
RowRadiiComplete(row) ==
    /\ lmp_df[row.idx].type \in DOMAIN radii
    /\ \A id \in Range(NeighborIds(row)) : lmp_df[id].type \in DOMAIN radii

\* C25: for an atom with at least 4 neighbors, the feature computation of
\* transform reads no per-facet attribute of its PackingOfSite before the
\* step that sets it has run: started on the object as the constructor
\* leaves it, it does not end in an AttributeError.
C25_ReadsFollowComputation ==
    \A i \in DOMAIN X :
        ( /\ Attempted(i) /\ SiteExists(lmp_df, X[i])
          /\ NValid(X[i]) >= 4 /\ RowRadiiComplete(X[i]) )
        => transform_compute(
               NewPackingOfSite(SiteOf(lmp_df, X[i]), radii), vai).exc
           # "AttributeError"

\* the atoms of X with at least 4 neighbors, in row order
RECURSIVE PackedAtoms(_)
PackedAtoms(rows) ==
    IF rows = <<>> THEN <<>>
    ELSE (IF NValid(Head(rows)) >= 4 THEN <<Head(rows).idx>> ELSE <<>>)
         \o PackedAtoms(Tail(rows))

\* C28: once a transform call has ended, each side list the configuration
\* computes holds exactly one entry per atom of that call's X with at least
\* 4 neighbors, in row order, and nothing of an earlier call.
C28_SideListsOfLastCall ==
    Finished =>
        /\ WantVolume(vai) =>
              /\ side.volume_interstice_list = PackedAtoms(X)
              /\ side.volume_list = PackedAtoms(X)
        /\ WantArea(vai) =>
              /\ side.area_interstice_list = PackedAtoms(X)
              /\ side.area_list = PackedAtoms(X)

\* C29: no step of transform changes X, the coordinate table (coordinates
\* and types) or the radius table, whether the call returns or fails.
C29_InputsUnchanged ==
    [][X' = X /\ lmp_df' = lmp_df /\ radii' = radii]_vars

\* a second call over a non-empty X has ended
C29_Witness ==
    /\ Finished /\ calls = 2 /\ Len(X) >= 1
    /\ lmp_df = LmpTable

(***************************************************************************)
(* The target set of CharacterMotif and the width of its table (checked    *)
(* under SpecCharacterMotif).                                              *)
(***************************************************************************)
\* C26: whether the target set was supplied by the caller or defaulted,
\* transform and get_feature_names can read it: the instance has the
\* attribute target_voro_idx and transform does not fail reading it.
C26_TargetSetReadable ==
    cm_ret.pc # "none" =>
        /\ "target_voro_idx" \in cm.attrs
        /\ cm_ret.exc # "AttributeError"

\* C27: for frank_kasper 0 or 1, the number of indicator columns transform
\* produces equals the number of names get_feature_names returns, so the
\* table is built.
C27_ColumnsMatchNames ==
    ( "target_voro_idx" \in cm.attrs /\ cm_ret.pc # "none" )
    => /\ Len(cm.target_voro_idx) + cm.frank_kasper + 1
             = Len(CharacterMotif_get_feature_names(cm))
       /\ cm_ret.pc = "returned"

=============================================================================
